---- MODULE Spec2Model ----
(***************************************************************************)
(* Model of src/index.ts (and its untyped twin src/unnamed/part_000): the  *)
(* type-introspection helpers getType / getRealType, the array aggregates  *)
(* allItemsHaveTheSameType, everyItemHasAUniqueRealType, countRealTypes,   *)
(* and the harness comparison areEqual.                                    *)
(*                                                                         *)
(* A behaviour is one harness line: a function under test is chosen with   *)
(* its fixture (Init) and the call is then executed.  The call             *)
(* of allItemsHaveTheSameType is executed step by step (the map, then one  *)
(* step per callback invocation of every); the other calls are atomic.     *)
(***************************************************************************)
EXTENDS Integers, Sequences, FiniteSets

VARIABLES
    test,       \* name of the function under test
    arr,        \* the sequence argument of the aggregate under test
    pc,         \* position inside the call: "start", "every", "again", "done"
    types,      \* allItemsHaveTheSameType: const types (line 50)
    idx,        \* allItemsHaveTheSameType: next index every() visits (1-based)
    compared,   \* allItemsHaveTheSameType: callback invocations made by every()
    sameRes,    \* result of allItemsHaveTheSameType
    uniqRes,    \* result of everyItemHasAUniqueRealType
    collation,  \* the host collation localeCompare resolved to ("" before the call)
    countRes,   \* result of countRealTypes
    value,      \* the argument of getRealType
    label,      \* result of getRealType(value)
    label2,     \* result of a second call getRealType(value)
    a, b,       \* the arguments of areEqual
    eqRes       \* result of areEqual(a, b)

vars == <<test, arr, pc, types, idx, compared, sameRes, uniqRes, collation,
          countRes, value, label, label2, a, b, eqRes>>

----------------------------------------------------------------------------
(* Bounds *)

\* longest sequence handed to an aggregate
MaxLen == 3
\* longest (outer) sequence handed to areEqual
MaxEqLen == 2

----------------------------------------------------------------------------
(* Runtime values.  A value is its typeof kind, its numeric class when it  *)
(* is a number, whether it is null, and the set of constructors whose      *)
(* prototype is on its prototype chain (what instanceof tests).            *)

Val(kind, num, nul, inst) == [kind |-> kind, num |-> num, nul |-> nul, inst |-> inst]

Prim(kind) == Val(kind, "none", FALSE, {})
Num(class) == Val("number", class, FALSE, {})
Null       == Val("object", "none", TRUE, {})
Obj(inst)  == Val("object", "none", FALSE, inst)

Values ==
    { Prim("boolean"), Prim("string"), Prim("function"), Prim("undefined"),
      Prim("symbol"), Prim("bigint"),
      Num("finite"), Num("NaN"), Num("+Infinity"), Num("-Infinity"),
      Null,
      Obj({}),                 \* {}
      Obj({"Array"}),          \* []
      Obj({"Date"}),           \* new Date()
      Obj({"RegExp"}),         \* /x/
      Obj({"Set"}),            \* new Set()
      Obj({"Event"}),          \* new Event('e')
      Obj({"String"}),         \* new String('12')
      Obj({"Array", "Set"}) }  \* both prototypes on the chain

RECURSIVE SeqsUpTo(_, _)
SeqsUpTo(S, n) ==
    IF n = 0 THEN {<<>>}
    ELSE LET shorter == SeqsUpTo(S, n - 1)
         IN  shorter \cup {Append(s, x) : s \in {t \in shorter : Len(t) = n - 1}, x \in S}

Arrays == SeqsUpTo(Values, MaxLen)

----------------------------------------------------------------------------
(* getRealType *)

isNaN(v) == v.num = "NaN"

isFinite(v) == v.num = "finite"

instanceof(v, C) == C \in v.inst

\* mutant: the null test of line 74 is missing
getRealTypeNullAsObject(v) ==
    LET type == v.kind
    IN  IF type = "number" THEN
            IF isNaN(v) THEN "NaN"
            ELSE IF isFinite(v) THEN type
            ELSE "Infinity"
        ELSE IF type = "object" THEN
            IF instanceof(v, "Array") THEN "array"
            ELSE IF instanceof(v, "Date") THEN "date"
            ELSE IF instanceof(v, "RegExp") THEN "regexp"
            ELSE IF instanceof(v, "Set") THEN "set"
            ELSE IF instanceof(v, "Event") THEN "event"
            ELSE type
        ELSE type

\* mutant: the final return of line 96 is missing, so a value that leaves
\* the switch by a break gets no label
getRealTypeNoFinalReturn(v) ==
    LET type == v.kind
    IN  IF type = "number" THEN
            IF isNaN(v) THEN "NaN"
            ELSE IF isFinite(v) THEN type
            ELSE "Infinity"
        ELSE IF type = "object" THEN
            IF v.nul THEN "null"
            ELSE IF instanceof(v, "Array") THEN "array"
            ELSE IF instanceof(v, "Date") THEN "date"
            ELSE IF instanceof(v, "RegExp") THEN "regexp"
            ELSE IF instanceof(v, "Set") THEN "set"
            ELSE IF instanceof(v, "Event") THEN "event"
            ELSE ""
        ELSE ""

getRealType(v) ==
    LET type == v.kind
    IN  IF type = "number" THEN
            IF isNaN(v) THEN "NaN"
            ELSE IF isFinite(v) THEN type
            ELSE "Infinity"
        ELSE IF type = "object" THEN
            IF v.nul THEN "null"
            ELSE IF instanceof(v, "Array") THEN "array"
            ELSE IF instanceof(v, "Date") THEN "date"
            ELSE IF instanceof(v, "RegExp") THEN "regexp"
            ELSE IF instanceof(v, "Set") THEN "set"
            ELSE IF instanceof(v, "Event") THEN "event"
            ELSE type
        ELSE type

getRealTypesOfItems(s) == [i \in 1..Len(s) |-> getRealType(s[i])]

----------------------------------------------------------------------------
(* getType, getTypesOfItems *)

\* mutant: the fine-grained label instead of typeof
getTypeFineGrained(v) == getRealType(v)

getType(v) == v.kind

\* mutant: a single lazy pass that stops computing types after the first
\* item whose type differs from that of the first item
getTypesOfItemsLazy(s) ==
    LET differs == {i \in 1..Len(s) : getType(s[i]) # getType(s[1])}
        stop    == IF differs = {} THEN Len(s)
                   ELSE CHOOSE i \in differs : \A j \in differs : i <= j
    IN  [i \in 1..stop |-> getType(s[i])]

\* mutant: maps the items with getRealType
getTypesOfItemsReal(s) == [i \in 1..Len(s) |-> getRealType(s[i])]

getTypesOfItems(s) == [i \in 1..Len(s) |-> getType(s[i])]

----------------------------------------------------------------------------
(* everyItemHasAUniqueRealType *)

includes(s, x) == \E i \in 1..Len(s) : s[i] = x

\* mutant: types.push(type) of line 113 is missing
RECURSIVE uniqueFromNoPush(_, _, _)
uniqueFromNoPush(s, i, seen) ==
    IF i > Len(s) THEN TRUE
    ELSE LET type == getRealType(s[i])
         IN  IF includes(seen, type) THEN FALSE
             ELSE uniqueFromNoPush(s, i + 1, seen)

\* mutant: an item is compared with its predecessor only
everyItemDiffersFromPrevious(s) ==
    \A i \in 2..Len(s) : getRealType(s[i]) # getRealType(s[i - 1])

RECURSIVE uniqueFrom(_, _, _)
uniqueFrom(s, i, seen) ==
    IF i > Len(s) THEN TRUE
    ELSE LET type == getRealType(s[i])
         IN  IF includes(seen, type) THEN FALSE
             ELSE uniqueFrom(s, i + 1, Append(seen, type))

everyItemHasAUniqueRealType(s) == uniqueFrom(s, 1, <<>>)

----------------------------------------------------------------------------
(* Strings of labels as UTF-16 code units, and String.prototype.localeCompare *)

CodeUnits(s) ==
    CASE s = "boolean" -> <<98, 111, 111, 108, 101, 97, 110>>
      [] s = "number" -> <<110, 117, 109, 98, 101, 114>>
      [] s = "string" -> <<115, 116, 114, 105, 110, 103>>
      [] s = "array" -> <<97, 114, 114, 97, 121>>
      [] s = "object" -> <<111, 98, 106, 101, 99, 116>>
      [] s = "function" -> <<102, 117, 110, 99, 116, 105, 111, 110>>
      [] s = "undefined" -> <<117, 110, 100, 101, 102, 105, 110, 101, 100>>
      [] s = "null" -> <<110, 117, 108, 108>>
      [] s = "NaN" -> <<78, 97, 78>>
      [] s = "Infinity" -> <<73, 110, 102, 105, 110, 105, 116, 121>>
      [] s = "date" -> <<100, 97, 116, 101>>
      [] s = "regexp" -> <<114, 101, 103, 101, 120, 112>>
      [] s = "set" -> <<115, 101, 116>>
      [] s = "symbol" -> <<115, 121, 109, 98, 111, 108>>
      [] s = "bigint" -> <<98, 105, 103, 105, 110, 116>>
      [] s = "event" -> <<101, 118, 101, 110, 116>>
      [] OTHER -> <<>>

\* lexicographic comparison of two sequences of integers: <0, 0 or >0
RECURSIVE lexCompare(_, _, _)
lexCompare(x, y, i) ==
    IF i > Len(x) /\ i > Len(y) THEN 0
    ELSE IF i > Len(x) THEN -1
    ELSE IF i > Len(y) THEN 1
    ELSE IF x[i] # y[i] THEN x[i] - y[i]
    ELSE lexCompare(x, y, i + 1)

isUpper(c) == c >= 65 /\ c <= 90

\* primary weight of a basic Latin letter: its case is ignored
primary(x) == [i \in 1..Len(x) |-> IF isUpper(x[i]) THEN x[i] + 32 ELSE x[i]]

\* tertiary weight: lower case sorts before upper case
tertiary(x) == [i \in 1..Len(x) |-> IF isUpper(x[i]) THEN 1 ELSE 0]

\* the collations a host resolves x.localeCompare(y) to: the ICU root
\* collation (Intl builds), or plain code-unit order (builds without Intl)
Collations == {"icu", "codeunit"}

localeCompare(x, y, c) ==
    IF c = "codeunit" THEN lexCompare(CodeUnits(x), CodeUnits(y), 1)
    ELSE LET p == lexCompare(primary(CodeUnits(x)), primary(CodeUnits(y)), 1)
         IN  IF p # 0 THEN p
             ELSE lexCompare(tertiary(CodeUnits(x)), tertiary(CodeUnits(y)), 1)

----------------------------------------------------------------------------
(* countRealTypes *)

\* index of key k among the entries of the object, 0 when absent
RECURSIVE keyIndex(_, _, _)
keyIndex(entries, k, i) ==
    IF i > Len(entries) THEN 0
    ELSE IF entries[i][1] = k THEN i
    ELSE keyIndex(entries, k, i + 1)

\* the forEach body (lines 126-133) on the object kept as its entries in
\* insertion order, which is the order Object.entries lists string keys in
\* mutant: the increment of line 129 assigns 1
countItemNoIncrement(entries, item) ==
    LET type == getRealType(item)
        at   == keyIndex(entries, type, 1)
    IN  IF at # 0 THEN [entries EXCEPT ![at] = <<type, 1>>]
        ELSE Append(entries, <<type, 1>>)

countItem(entries, item) ==
    LET type == getRealType(item)
        at   == keyIndex(entries, type, 1)
    IN  IF at # 0 /\ entries[at][2] # 0
        THEN [entries EXCEPT ![at] = <<type, entries[at][2] + 1>>]
        ELSE IF at # 0 THEN [entries EXCEPT ![at] = <<type, 1>>]
        ELSE Append(entries, <<type, 1>>)

RECURSIVE countFrom(_, _, _)
countFrom(s, i, entries) ==
    IF i > Len(s) THEN entries
    ELSE countFrom(s, i + 1, countItem(entries, s[i]))

\* Array.prototype.sort with the comparator of line 134: a stable sort,
\* here by insertion; e goes after every element that does not compare above it
RECURSIVE insertSorted(_, _, _, _)
insertSorted(sorted, e, c, i) ==
    IF i > Len(sorted) THEN Append(sorted, e)
    ELSE IF localeCompare(sorted[i][1], e[1], c) > 0
         THEN SubSeq(sorted, 1, i - 1) \o <<e>> \o SubSeq(sorted, i, Len(sorted))
         ELSE insertSorted(sorted, e, c, i + 1)

RECURSIVE sortEntries(_, _, _, _)
sortEntries(entries, c, i, sorted) ==
    IF i > Len(entries) THEN sorted
    ELSE sortEntries(entries, c, i + 1, insertSorted(sorted, entries[i], c, 1))

\* mutant: Object.entries(types) is returned without the sort
countRealTypesUnsorted(s, c) == countFrom(s, 1, <<>>)

countRealTypes(s, c) == sortEntries(countFrom(s, 1, <<>>), c, 1, <<>>)

----------------------------------------------------------------------------
(* areEqual.  Its arguments are primitives and arrays of primitives or of  *)
(* arrays of primitives; a value carries its kind, the characters of its   *)
(* string conversion when it is a primitive, and its items when an array.  *)

EqPrim(t, s) == [t |-> t, s |-> s, items |-> <<>>]
EqArr(items) == [t |-> "array", s |-> <<>>, items |-> items]

EqPrims == { EqPrim("number", <<"1">>), EqPrim("number", <<"2">>),
             EqPrim("string", <<"1">>) }

EqInner == { EqArr(<<EqPrim("number", <<"1">>)>>),
             EqArr(<<EqPrim("number", <<"2">>)>>),
             EqArr(<<EqPrim("number", <<"1">>), EqPrim("number", <<"2">>)>>) }

EqValues == EqPrims \cup {EqArr(s) : s \in SeqsUpTo(EqPrims \cup EqInner, MaxEqLen)}

isArray(v) == v.t = "array"

\* Array.prototype.toString: the items' string conversions joined with ","
RECURSIVE toString(_)
RECURSIVE join(_, _)
join(items, i) ==
    IF i > Len(items) THEN <<>>
    ELSE (IF i > 1 THEN <<",">> ELSE <<>>) \o toString(items[i]) \o join(items, i + 1)

toString(v) == IF isArray(v) THEN join(v.items, 1) ELSE v.s

\* a === b for two values that are not both arrays
strictEquals(x, y) == ~isArray(x) /\ ~isArray(y) /\ x.t = y.t /\ x.s = y.s

areEqual(x, y) ==
    IF isArray(x) /\ isArray(y) THEN
        IF Len(x.items) # Len(y.items) THEN FALSE
        ELSE toString(x) = toString(y)
    ELSE strictEquals(x, y)

----------------------------------------------------------------------------
(* The harness: one function under test and its fixture *)

Tests == {"getRealType", "allItemsHaveTheSameType", "everyItemHasAUniqueRealType",
          "countRealTypes", "areEqual"}

NoValue == Prim("undefined")
NoEq    == EqPrim("number", <<"1">>)

Init ==
    /\ test \in Tests
    /\ pc = "start"
    /\ types = <<>> /\ idx = 1 /\ compared = 0
    /\ sameRes = FALSE /\ uniqRes = FALSE
    /\ collation = "" /\ countRes = <<>>
    /\ label = "" /\ label2 = ""
    /\ eqRes = FALSE
    /\ IF test \in {"allItemsHaveTheSameType", "everyItemHasAUniqueRealType", "countRealTypes"}
       THEN arr \in Arrays ELSE arr = <<>>
    /\ IF test = "getRealType" THEN value \in Values ELSE value = NoValue
    /\ IF test = "areEqual" THEN a \in EqValues /\ b \in EqValues
       ELSE a = NoEq /\ b = NoEq

\* line 50: const types = getTypesOfItems(arr)
MapTypes ==
    /\ test = "allItemsHaveTheSameType" /\ pc = "start"
    /\ types' = getTypesOfItems(arr)
    /\ pc' = "every"
    /\ UNCHANGED <<test, arr, idx, compared, sameRes, uniqRes, collation, countRes,
                   value, label, label2, a, b, eqRes>>

\* line 51: one callback invocation of types.every(item => item === types[0])
EveryStep ==
    /\ test = "allItemsHaveTheSameType" /\ pc = "every"
    /\ idx <= Len(types)
    /\ compared' = compared + 1
    /\ IF types[idx] = types[1]
       THEN idx' = idx + 1 /\ pc' = pc /\ sameRes' = sameRes
       ELSE idx' = idx /\ pc' = "done" /\ sameRes' = FALSE
    /\ UNCHANGED <<test, arr, types, uniqRes, collation, countRes,
                   value, label, label2, a, b, eqRes>>

\* line 51: every() ran out of items without a false callback result
EveryEnd ==
    /\ test = "allItemsHaveTheSameType" /\ pc = "every"
    /\ idx > Len(types)
    /\ sameRes' = TRUE
    /\ pc' = "done"
    /\ UNCHANGED <<test, arr, types, idx, compared, uniqRes, collation, countRes,
                   value, label, label2, a, b, eqRes>>

CallEveryItemHasAUniqueRealType ==
    /\ test = "everyItemHasAUniqueRealType" /\ pc = "start"
    /\ uniqRes' = everyItemHasAUniqueRealType(arr)
    /\ pc' = "done"
    /\ UNCHANGED <<test, arr, types, idx, compared, sameRes, collation, countRes,
                   value, label, label2, a, b, eqRes>>

CallCountRealTypes ==
    /\ test = "countRealTypes" /\ pc = "start"
    /\ \E c \in Collations :
          /\ collation' = c
          /\ countRes' = countRealTypes(arr, c)
    /\ pc' = "done"
    /\ UNCHANGED <<test, arr, types, idx, compared, sameRes, uniqRes,
                   value, label, label2, a, b, eqRes>>

CallGetRealType ==
    /\ test = "getRealType" /\ pc = "start"
    /\ label' = getRealType(value)
    /\ pc' = "again"
    /\ UNCHANGED <<test, arr, types, idx, compared, sameRes, uniqRes, collation, countRes,
                   value, label2, a, b, eqRes>>

CallGetRealTypeAgain ==
    /\ test = "getRealType" /\ pc = "again"
    /\ label2' = getRealType(value)
    /\ pc' = "done"
    /\ UNCHANGED <<test, arr, types, idx, compared, sameRes, uniqRes, collation, countRes,
                   value, label, a, b, eqRes>>

CallAreEqual ==
    /\ test = "areEqual" /\ pc = "start"
    /\ eqRes' = areEqual(a, b)
    /\ pc' = "done"
    /\ UNCHANGED <<test, arr, types, idx, compared, sameRes, uniqRes, collation, countRes,
                   value, label, label2, a, b>>

Next ==
    \/ MapTypes
    \/ EveryStep
    \/ EveryEnd
    \/ CallEveryItemHasAUniqueRealType
    \/ CallCountRealTypes
    \/ CallGetRealType
    \/ CallGetRealTypeAgain
    \/ CallAreEqual

Spec == Init /\ [][Next]_vars

----------------------------------------------------------------------------
(* Properties *)

Done(t) == test = t /\ pc = "done"

Vocabulary ==
    {"boolean", "number", "string", "array", "object", "function", "undefined",
     "null", "NaN", "Infinity", "date", "regexp", "set", "symbol", "bigint", "event"}

\* the composite kinds in the order they are recognised, and their labels
Composite == <<"Array", "Date", "RegExp", "Set", "Event">>
CompositeLabel == <<"array", "date", "regexp", "set", "event">>

\* C1: getRealType follows the ordered first-match decision table: a number is
\* "NaN" when NaN, else "Infinity" when not finite (+Infinity and -Infinity),
\* else "number"; an object is "null" when null, else the label of the first
\* of Array, Date, RegExp, Set, Event it is an instance of, else "object"
\* (boxed primitives included); every other value gets its typeof name.
C1_DecisionTable ==
    (test = "getRealType" /\ pc # "start") =>
        IF value.kind = "number" THEN
            /\ value.num = "NaN" => label = "NaN"
            /\ value.num \in {"+Infinity", "-Infinity"} => label = "Infinity"
            /\ value.num = "finite" => label = "number"
        ELSE IF value.kind = "object" THEN
            /\ value.nul => label = "null"
            /\ ~value.nul =>
                 /\ \A i \in 1..Len(Composite) :
                       (/\ Composite[i] \in value.inst
                        /\ \A j \in 1..(i - 1) : Composite[j] \notin value.inst)
                       => label = CompositeLabel[i]
                 /\ (\A i \in 1..Len(Composite) : Composite[i] \notin value.inst)
                       => label = "object"
        ELSE label = value.kind /\ label \in {"boolean", "string", "function",
                                              "undefined", "symbol", "bigint"}

\* C1 witness: null has been classified as "null"
C1_Witness ==
    test = "getRealType" /\ pc = "done" /\ value = Null /\ label = "null"

\* C2 as stated: allItemsHaveTheSameType(S) is true iff the getRealType label
\* of every element equals the getRealType label of the first element.
C2_SameLabelAsFirst ==
    Done("allItemsHaveTheSameType") =>
        (sameRes <=> \A i \in 1..Len(arr) : getRealType(arr[i]) = getRealType(arr[1]))

\* C2 amended: allItemsHaveTheSameType(S) is true iff the typeof kind of every
\* element equals the typeof kind of the first element; true for the empty
\* sequence.
C2_SameBasicKindAsFirst ==
    Done("allItemsHaveTheSameType") =>
        /\ sameRes <=> \A i \in 1..Len(arr) : arr[i].kind = arr[1].kind
        /\ arr = <<>> => sameRes

\* C2 witness: a sequence of one typeof kind and two different labels was
\* found to be of the same type
C2_Witness ==
    /\ Done("allItemsHaveTheSameType") /\ sameRes
    /\ \E i \in 1..Len(arr) : getRealType(arr[i]) # getRealType(arr[1])

\* strictly ascending order of a sequence of pairs under a comparison of labels
Ascending(pairs, cmp(_, _)) ==
    \A i, j \in 1..Len(pairs) : i < j => cmp(pairs[i][1], pairs[j][1]) < 0

codeUnitCompare(x, y) == lexCompare(CodeUnits(x), CodeUnits(y), 1)

hostCompare(x, y) == localeCompare(x, y, collation)

\* C3 as stated: the pairs of countRealTypes(S) are in strictly ascending
\* order of label under code-point comparison.
C3_CodePointOrder ==
    Done("countRealTypes") => Ascending(countRes, codeUnitCompare)

\* C3 amended: the pairs of countRealTypes(S) are in strictly ascending order
\* of label under the host's localeCompare, the comparator the sort is given.
C3_LocaleCompareOrder ==
    Done("countRealTypes") => Ascending(countRes, hostCompare)

\* C3 witness: under the ICU collation "array" is listed before "NaN"
C3_Witness ==
    /\ Done("countRealTypes") /\ collation = "icu"
    /\ \E i, j \in 1..Len(countRes) :
          i < j /\ countRes[i][1] = "array" /\ countRes[j][1] = "NaN"

RECURSIVE sumCounts(_, _)
sumCounts(pairs, i) ==
    IF i > Len(pairs) THEN 0 ELSE pairs[i][2] + sumCounts(pairs, i + 1)

\* C4: countRealTypes(S) is the histogram of the labels of S: every count is
\* at least 1, the counts sum to the length of S, no label is listed twice,
\* the labels listed are exactly the labels of the elements, each count is
\* the number of elements with that label, and the empty sequence yields the
\* empty result.
C4_Histogram ==
    Done("countRealTypes") =>
        /\ \A i \in 1..Len(countRes) : countRes[i][2] >= 1
        /\ sumCounts(countRes, 1) = Len(arr)
        /\ \A i, j \in 1..Len(countRes) : i # j => countRes[i][1] # countRes[j][1]
        /\ {countRes[i][1] : i \in 1..Len(countRes)}
              = {getRealType(arr[k]) : k \in 1..Len(arr)}
        /\ \A i \in 1..Len(countRes) :
              countRes[i][2]
                 = Cardinality({k \in 1..Len(arr) : getRealType(arr[k]) = countRes[i][1]})
        /\ arr = <<>> => countRes = <<>>

\* C4 witness: a histogram with two labels, one of them counted twice
C4_Witness ==
    /\ Done("countRealTypes") /\ Len(countRes) = 2
    /\ \E i \in 1..Len(countRes) : countRes[i][2] = 2

\* C5: everyItemHasAUniqueRealType(S) is true iff no two elements at different
\* positions have the same getRealType label; true for the empty sequence.
C5_UniqueIffNoSharedLabel ==
    Done("everyItemHasAUniqueRealType") =>
        /\ uniqRes <=> \A i, j \in 1..Len(arr) :
                           i # j => getRealType(arr[i]) # getRealType(arr[j])
        /\ arr = <<>> => uniqRes

\* C5 witness: the first and the third element share a label, the second has
\* another, and the result is false
C5_Witness ==
    /\ Done("everyItemHasAUniqueRealType") /\ ~uniqRes
    /\ Len(arr) = 3
    /\ getRealType(arr[1]) = getRealType(arr[3])
    /\ getRealType(arr[1]) # getRealType(arr[2])

RECURSIVE deepEqual(_, _)
deepEqual(x, y) ==
    IF isArray(x) /\ isArray(y) THEN
        /\ Len(x.items) = Len(y.items)
        /\ \A i \in 1..Len(x.items) : deepEqual(x.items[i], y.items[i])
    ELSE ~isArray(x) /\ ~isArray(y) /\ x.t = y.t /\ x.s = y.s

C8_BasicKindCompared ==
    Done("allItemsHaveTheSameType") =>
        /\ (arr # <<>> /\ \A i \in 1..Len(arr) : arr[i].kind = "number") => sameRes
        /\ (\E i, j \in 1..Len(arr) :
               arr[i] = Prim("string") /\ arr[j] = Obj({"String"})) => ~sameRes

\* C8 witness: [123, NaN, Infinity] was found to be of the same type
C8_Witness ==
    /\ Done("allItemsHaveTheSameType") /\ sameRes
    /\ arr = <<Num("finite"), Num("NaN"), Num("+Infinity")>>

\* position of the first element whose typeof kind differs from the first's
firstMismatch(s) ==
    CHOOSE i \in 1..Len(s) :
        /\ s[i].kind # s[1].kind
        /\ \A j \in 1..(i - 1) : s[j].kind = s[1].kind

hasMismatch(s) == \E i \in 1..Len(s) : s[i].kind # s[1].kind

\* C9 as stated: when allItemsHaveTheSameType returns false, the type of no
\* element after the first mismatching one has been computed.
C9_NoLaterElementInspected ==
    (Done("allItemsHaveTheSameType") /\ ~sameRes) =>
        Len(types) = firstMismatch(arr)

\* C9 amended: getTypesOfItems first computes the type of every element; the
\* every() pass over the computed types then stops at the first mismatch, so
\* on a false result every type has been computed and the types compared are
\* those up to the first mismatching element.
C9_ComparisonShortCircuits ==
    /\ pc \in {"every", "done"} /\ test = "allItemsHaveTheSameType"
          => Len(types) = Len(arr)
    /\ (Done("allItemsHaveTheSameType") /\ ~sameRes) =>
          /\ hasMismatch(arr)
          /\ compared = firstMismatch(arr)
          /\ idx = firstMismatch(arr)
    /\ (Done("allItemsHaveTheSameType") /\ sameRes) => compared = Len(arr)

\* C9 witness: false was returned with an element left after the mismatch
C9_Witness ==
    /\ Done("allItemsHaveTheSameType") /\ ~sameRes
    /\ hasMismatch(arr) /\ firstMismatch(arr) < Len(arr)
    /\ compared < Len(types)

\* C10: the aggregates agree: everyItemHasAUniqueRealType(S) is true iff every
\* count of countRealTypes(S) is 1, iff countRealTypes(S) has as many pairs as
\* S has elements.
C10_AggregatesAgree ==
    Done("countRealTypes") =>
        /\ everyItemHasAUniqueRealType(arr)
              <=> \A i \in 1..Len(countRes) : countRes[i][2] = 1
        /\ everyItemHasAUniqueRealType(arr) <=> Len(countRes) = Len(arr)

\* C10 witness: three elements of three labels, three pairs of count 1
C10_Witness ==
    /\ Done("countRealTypes") /\ Len(arr) = 3 /\ Len(countRes) = 3
    /\ everyItemHasAUniqueRealType(arr)

====
